---- MODULE Spec2Model ----
(***************************************************************************)
(* Model of nktkas/mouse-hook: a Windows low-level mouse hook for Deno.     *)
(*                                                                          *)
(* Three variants of the public MouseHook class exist in the sources:       *)
(*   "fine"    src/src/MouseHook.ts lines 1-213   (ten per-button events)   *)
(*   "coarse"  src/src/MouseHook.ts lines 215-400 (four event kinds)        *)
(*   "worker"  src/src/MouseHook_worker.ts        (coarse hook in a Worker, *)
(*             events relayed to a facade with postMessage)                 *)
(* One behaviour of the model follows one session of one variant.           *)
(***************************************************************************)
EXTENDS Integers, Sequences, FiniteSets, TLC

(***************************************************************************)
(* Bounds of the model.                                                     *)
(***************************************************************************)
\* number of hook callback invocations followed in one behaviour
MaxCalls == 2
\* number of close() calls followed in one behaviour
MaxClose == 2

(***************************************************************************)
(* Program constants.                                                       *)
(***************************************************************************)
WM_MOUSEMOVE == 512
WM_LBUTTONDOWN == 513
WM_LBUTTONUP == 514
WM_RBUTTONDOWN == 516
WM_RBUTTONUP == 517
WM_MBUTTONDOWN == 519
WM_MBUTTONUP == 520
WM_MOUSEWHEEL == 522
WM_XBUTTONDOWN == 523
WM_XBUTTONUP == 524

\* The ten message codes the mapping tables know.
KnownCodes ==
    { WM_MOUSEMOVE, WM_LBUTTONDOWN, WM_LBUTTONUP, WM_RBUTTONDOWN, WM_RBUTTONUP,
      WM_MBUTTONDOWN, WM_MBUTTONUP, WM_MOUSEWHEEL, WM_XBUTTONDOWN, WM_XBUTTONUP }

(***************************************************************************)
(* Inputs the native subsystem hands to the callback.                       *)
(*   nCode  : i32; negative means "pass on without processing"              *)
(*   wParam : u32 message code; 526 (WM_MOUSEHWHEEL, 0x020E) is a code the  *)
(*            low-level mouse hook delivers and no table maps               *)
(*   lParam : pointer; 0 is null, i > 0 points at the record Memory[i]      *)
(* A record is the five little-endian 32-bit words of MSLLHOOKSTRUCT at     *)
(* byte offsets 0, 4, 8, 12, 16; a word is written << high, low >>, its two *)
(* 16-bit halves.  The words read unsigned (flags, time) are kept below     *)
(* 2^31, the largest values the checker's integers hold.                    *)
(***************************************************************************)
NCodes == { -1, 0 }

WParams == { WM_MOUSEMOVE, WM_LBUTTONDOWN, WM_RBUTTONDOWN, WM_MOUSEWHEEL,
             WM_XBUTTONUP, 526 }

Memory ==
    << \* x = 10, y = 20, mouseData 0x00780000 (+120), flags 0x03, time 1000
       << <<0, 10>>, <<0, 20>>, <<120, 0>>, <<0, 3>>, <<0, 1000>> >>,
       \* x = -1, y = -2, mouseData 0x80000000, flags 0x00, time 0x7FFFFFFF
       << <<65535, 65535>>, <<65535, 65534>>, <<32768, 0>>, <<0, 0>>,
          <<32767, 65535>> >>,
       \* x = 300, y = 0, mouseData 0x00010000 (XBUTTON1), flags 0x01, time 7
       << <<0, 300>>, <<0, 0>>, <<1, 0>>, <<0, 1>>, <<0, 7>> >>,
       \* x = 5, y = -7, mouseData 0xFF881234 (-120 over a non-zero low
       \* word), flags 0x7FFFFFFE (bit 0 clear, every other bit set), time 2
       << <<0, 5>>, <<65535, 65529>>, <<65416, 4660>>, <<32767, 65534>>,
          <<0, 2>> >>,
       \* x = 0, y = 0, mouseData 0, flags 0x7FFFFFFD (bit 1 clear, every
       \* other bit set), time 0
       << <<0, 0>>, <<0, 0>>, <<0, 0>>, <<32767, 65533>>, <<0, 0>> >> >>

\* the pointers a session of the model is handed: null and the first two
\* records
LParams == 0 .. 2

\* the pointers and the codes the callbacks are applied to on their own
DecodeLParams == 0 .. Len(Memory)

DecodeWParams == KnownCodes \cup { 0, 526 }

\* Values the next hook in the chain may return from CallNextHookEx.
NextResults == { 0, 1 }

(***************************************************************************)
(* Deno.UnsafePointerView accessors.                                        *)
(***************************************************************************)
word(lParam, offset) == Memory[lParam][(offset \div 4) + 1]

getUint32(lParam, offset) ==
    LET w == word(lParam, offset) IN w[1] * 65536 + w[2]

getInt32(lParam, offset) ==
    LET w == word(lParam, offset)
    IN  IF w[1] >= 32768 THEN (w[1] - 65536) * 65536 + w[2]
        ELSE w[1] * 65536 + w[2]

(***************************************************************************)
(* Message code -> event name tables.                                       *)
(***************************************************************************)
\* fine variant: const MouseEventNameMap; "undefined" when the key is absent
MouseEventNameMap(wParam) ==
    CASE wParam = WM_LBUTTONDOWN -> "lbuttondown"
      [] wParam = WM_LBUTTONUP   -> "lbuttonup"
      [] wParam = WM_RBUTTONDOWN -> "rbuttondown"
      [] wParam = WM_RBUTTONUP   -> "rbuttonup"
      [] wParam = WM_MBUTTONDOWN -> "mbuttondown"
      [] wParam = WM_MBUTTONUP   -> "mbuttonup"
      [] wParam = WM_XBUTTONDOWN -> "xbuttondown"
      [] wParam = WM_XBUTTONUP   -> "xbuttonup"
      [] wParam = WM_MOUSEMOVE   -> "mousemove"
      [] wParam = WM_MOUSEWHEEL  -> "mousewheel"
      [] OTHER                   -> "undefined"

\* coarse variant: MouseHook.eventNameMap.get(wParam)
eventNameMap(wParam) ==
    CASE wParam = WM_MOUSEMOVE   -> "mousemove"
      [] wParam = WM_LBUTTONDOWN -> "mousedown"
      [] wParam = WM_LBUTTONUP   -> "mouseup"
      [] wParam = WM_RBUTTONDOWN -> "mousedown"
      [] wParam = WM_RBUTTONUP   -> "mouseup"
      [] wParam = WM_MBUTTONDOWN -> "mousedown"
      [] wParam = WM_MBUTTONUP   -> "mouseup"
      [] wParam = WM_MOUSEWHEEL  -> "mousewheel"
      [] wParam = WM_XBUTTONDOWN -> "mousedown"
      [] wParam = WM_XBUTTONUP   -> "mouseup"
      [] OTHER                   -> "undefined"

\* A worker table whose WM_RBUTTONUP entry names the wrong kind.
workerEventNameMap_WrongEntry(wParam) ==
    CASE wParam = WM_RBUTTONUP      -> "mousedown"
      [] wParam \in KnownCodes      -> eventNameMap(wParam)
      [] OTHER                      -> "undefined"

\* worker variant: the eventNameMap inlined in the worker code
workerEventNameMap(wParam) ==
    CASE wParam = WM_MOUSEMOVE   -> "mousemove"
      [] wParam = WM_LBUTTONDOWN -> "mousedown"
      [] wParam = WM_LBUTTONUP   -> "mouseup"
      [] wParam = WM_RBUTTONDOWN -> "mousedown"
      [] wParam = WM_RBUTTONUP   -> "mouseup"
      [] wParam = WM_MBUTTONDOWN -> "mousedown"
      [] wParam = WM_MBUTTONUP   -> "mouseup"
      [] wParam = WM_MOUSEWHEEL  -> "mousewheel"
      [] wParam = WM_XBUTTONDOWN -> "mousedown"
      [] wParam = WM_XBUTTONUP   -> "mouseup"
      [] OTHER                   -> "undefined"

(***************************************************************************)
(* The hook callbacks.  Each returns what one invocation does:              *)
(*   events : the CustomEvents passed to this.dispatchEvent, in order       *)
(*   cnh    : the CallNextHookEx calls made, in order (hhk is always null)  *)
(*   ret    : the value returned to the native caller                       *)
(* next is the value CallNextHookEx returns.                                *)
(***************************************************************************)
CallNextHookEx(nCode, wParam, lParam) ==
    [ nCode |-> nCode, wParam |-> wParam, lParam |-> lParam ]

\* fine variant, MouseHook.ts 157-184
fineCallback(nCode, wParam, lParam, next) ==
    LET mapped    == MouseEventNameMap(wParam)
        \* MouseEventNameMap[wParam] ?? wParam; the CustomEvent constructor
        \* converts a numeric name to its decimal string
        eventName == IF mapped # "undefined" THEN mapped ELSE ToString(wParam)
        pt        == [ x |-> getInt32(lParam, 0), y |-> getInt32(lParam, 4) ]
        \* (view.getInt32(8) >> 16) & 0xFFFF
        hiword    == (getInt32(lParam, 8) \div 65536) % 65536
        mouseData == IF eventName = "mousewheel" /\ (hiword \div 32768) % 2 = 1
                     THEN hiword - 65536 ELSE hiword
        rawFlags  == getUint32(lParam, 12)
        flags     == [ injected        |-> (rawFlags % 2) # 0,
                       lowerIlInjected |-> ((rawFlags \div 2) % 2) # 0 ]
        time      == getUint32(lParam, 16)
        event     == [ type   |-> eventName,
                       detail |-> [ pt |-> pt, mouseData |-> mouseData,
                                    flags |-> flags, time |-> time ] ]
    IN  [ events |-> IF nCode >= 0 /\ lParam # 0 THEN << event >> ELSE << >>,
          cnh    |-> << CallNextHookEx(nCode, wParam, lParam) >>,
          ret    |-> next ]

\* A detail object whose time is read at the offset of flags.
coarseDetail_TimeAtFlags(lParam) ==
    [ x         |-> getInt32(lParam, 0),
      y         |-> getInt32(lParam, 4),
      mouseData |-> getInt32(lParam, 8),
      flags     |-> getUint32(lParam, 12),
      time      |-> getUint32(lParam, 12) ]

\* the detail object built by the coarse and the worker callbacks
coarseDetail(lParam) ==
    [ x         |-> getInt32(lParam, 0),
      y         |-> getInt32(lParam, 4),
      mouseData |-> getInt32(lParam, 8),
      flags     |-> getUint32(lParam, 12),
      time      |-> getUint32(lParam, 16) ]

\* A coarse callback that returns as soon as it has dispatched an event,
\* without passing the call on to the next hook.
coarseCallback_ReturnsEarly(nCode, wParam, lParam, next) ==
    LET eventName == eventNameMap(wParam)
        forwarded == nCode >= 0 /\ lParam # 0 /\ eventName # "undefined"
    IN  [ events |-> IF forwarded
                     THEN << [ type |-> eventName, detail |-> coarseDetail(lParam) ] >>
                     ELSE << >>,
          cnh    |-> IF forwarded THEN << >>
                     ELSE << CallNextHookEx(nCode, wParam, lParam) >>,
          ret    |-> IF forwarded THEN 0 ELSE next ]

\* A coarse callback that decodes and dispatches whatever nCode is.
coarseCallback_IgnoresNCode(nCode, wParam, lParam, next) ==
    LET eventName == eventNameMap(wParam)
    IN  [ events |-> IF lParam # 0 /\ eventName # "undefined"
                     THEN << [ type |-> eventName, detail |-> coarseDetail(lParam) ] >>
                     ELSE << >>,
          cnh    |-> << CallNextHookEx(nCode, wParam, lParam) >>,
          ret    |-> next ]

\* coarse variant, MouseHook.ts 350-375
coarseCallback(nCode, wParam, lParam, next) ==
    LET eventName == eventNameMap(wParam)
    IN  [ events |-> IF nCode >= 0 /\ lParam # 0 /\ eventName # "undefined"
                     THEN << [ type |-> eventName, detail |-> coarseDetail(lParam) ] >>
                     ELSE << >>,
          cnh    |-> << CallNextHookEx(nCode, wParam, lParam) >>,
          ret    |-> next ]

\* worker variant, MouseHook_worker.ts 66-85
workerCallback(nCode, wParam, lParam, next) ==
    LET eventName == workerEventNameMap(wParam)
    IN  [ events |-> IF nCode >= 0 /\ lParam # 0 /\ eventName # "undefined"
                     THEN << [ type |-> eventName, detail |-> coarseDetail(lParam) ] >>
                     ELSE << >>,
          cnh    |-> << CallNextHookEx(nCode, wParam, lParam) >>,
          ret    |-> next ]

\* Worker listeners with the "mousewheel" listener left out.
workerListeners_NoWheel(event) ==
    IF event.type \in { "mousemove", "mousedown", "mouseup" }
    THEN << [ type |-> event.type, detail |-> event.detail ] >>
    ELSE << >>

\* worker variant, MouseHook_worker.ts 100-112: the four listeners registered
\* on the hook inside the worker; each posts one message for its event type
workerListeners(event) ==
    IF event.type \in { "mousemove", "mousedown", "mouseup", "mousewheel" }
    THEN << [ type |-> event.type, detail |-> event.detail ] >>
    ELSE << >>

\* An onmessage that re-dispatches the event with its time reset.
onmessage_ResetsTime(data) ==
    [ type |-> data.type, detail |-> [ data.detail EXCEPT !.time = 0 ] ]

\* worker variant, MouseHook_worker.ts 124-127: worker.onmessage builds the
\* event the facade dispatches from the message's type and detail
onmessage(data) == [ type |-> data.type, detail |-> data.detail ]

(***************************************************************************)
(* State.                                                                   *)
(***************************************************************************)
VARIABLES
    variant,        \* which MouseHook class this session is an instance of
    pc,             \* the consumer's thread: "start", "pumping" (inside the
                    \* constructor, blocked in GetMessageW), "constructed",
                    \* "threw" (the constructor threw), "crashed"
    wpc,            \* the worker's thread: "none", "loading", "pumping",
                    \* "returned" (start() returned), "dead", "crashed"
    nat,            \* the native resources and the calls made on them
    installResult,  \* "none", "ok", "failed": what SetWindowsHookExW returned
    ctorError,      \* the error the public constructor threw, or "none"
    closeError,     \* the error a close() call of the consumer threw, or "none"
    closeCalls,     \* close() calls made by the consumer
    terminated,     \* worker.terminate() has been called
    listening,      \* the consumer has added its listeners
    channel,        \* messages posted by the worker, not yet received
    dispatched,     \* events passed to dispatchEvent of the public object
    observed,       \* events the consumer's listeners received
    delivered,      \* the callback invocations with nCode >= 0 and data, in order
    calls,          \* number of callback invocations so far
    callLog         \* the last callback invocation: its arguments, the
                    \* events it dispatched, its CallNextHookEx calls and
                    \* its return value

vars == << variant, pc, wpc, nat, installResult, ctorError, closeError,
           closeCalls, terminated, listening, channel, dispatched, observed,
           delivered, calls, callLog >>

Variants == { "fine", "coarse", "worker" }

\* The native state before the constructor runs.
NoResources ==
    [ user32Open       |-> FALSE,   \* the Deno.dlopen("user32.dll") library
      cbOpen           |-> FALSE,   \* the Deno.UnsafeCallback
      hookHandle       |-> "unset", \* this.hookHandle
      hooked           |-> FALSE,   \* the hook is registered with the OS
      postQuitCalls    |-> 0,
      unhookCalls      |-> 0,
      unhookUnset      |-> 0,       \* unhook calls given an unset handle
      cbCloseCalls     |-> 0,
      user32CloseCalls |-> 0,
      getMessageCalls  |-> 0,
      staleCalls       |-> 0,       \* symbol calls made after user32.close()
      steps            |-> << >> ]  \* the release primitives called, in order

\* The fields of the class after dlopen and UnsafeCallback.threadSafe.
Acquired(n) == [ n EXCEPT !.user32Open = TRUE, !.cbOpen = TRUE ]

Init ==
    /\ variant \in Variants
    /\ pc = "start"
    /\ wpc = "none"
    /\ nat = NoResources
    /\ installResult = "none"
    /\ ctorError = "none"
    /\ closeError = "none"
    /\ closeCalls = 0
    /\ terminated = FALSE
    /\ listening = FALSE
    /\ channel = << >>
    /\ dispatched = << >>
    /\ observed = << >>
    /\ delivered = << >>
    /\ calls = 0
    /\ callLog = << >>

(***************************************************************************)
(* Native primitives, as steps on the native state n.                       *)
(* A symbol of user32 called after user32.close() is a call through a       *)
(* pointer into an unloaded library: it counts in staleCalls and its        *)
(* outcome is not defined (see the actions' choice "ub").                   *)
(***************************************************************************)
Stale(n) == IF n.user32Open THEN 0 ELSE 1

PostQuitMessage(n) ==
    [ n EXCEPT !.postQuitCalls = @ + 1, !.staleCalls = @ + Stale(n),
               !.steps = Append(@, "PostQuitMessage") ]

\* unhookOk: the OS accepts the call and removes the hook (the code ignores
\* the BOOL it returns)
UnhookWindowsHookEx(n, unhookOk) ==
    [ n EXCEPT !.unhookCalls = @ + 1,
               !.unhookUnset = @ + (IF n.hookHandle = "unset" THEN 1 ELSE 0),
               !.staleCalls  = @ + Stale(n),
               !.hooked      = IF n.hookHandle = "handle" /\ unhookOk
                               THEN FALSE ELSE @,
               !.steps       = Append(@, "UnhookWindowsHookEx") ]

callbackClose(n) ==
    [ n EXCEPT !.cbCloseCalls = @ + 1, !.cbOpen = FALSE,
               !.steps = Append(@, "callback.close") ]

user32Close(n) ==
    [ n EXCEPT !.user32CloseCalls = @ + 1, !.user32Open = FALSE,
               !.steps = Append(@, "user32.close") ]

GetMessageW(n) ==
    [ n EXCEPT !.getMessageCalls = @ + 1, !.staleCalls = @ + Stale(n) ]

(***************************************************************************)
(* close() of the direct variants (fine: MouseHook.ts 203-208, coarse:      *)
(* 394-399; the two bodies are the same four statements).                   *)
(* Returns the native state it leaves and the error it throws ("none" when  *)
(* it returns normally).  Choices of the environment:                       *)
(*   unhookOk   : UnhookWindowsHookEx removes the hook                      *)
(*   ffiRejects : the FFI layer refuses a pointer argument that is          *)
(*                undefined (TypeError) instead of passing it on            *)
(*   ub         : "proceeds" or "crashes", the outcome of calling a symbol  *)
(*                of a closed library                                       *)
(* Closing a Deno resource that is already closed throws BadResource.       *)
(***************************************************************************)
close(n, unhookOk, ffiRejects, ub) ==
    LET n1 == PostQuitMessage(n)
        n2 == UnhookWindowsHookEx(n1, unhookOk)
        n3 == callbackClose(n2)
        n4 == user32Close(n3)
    IN  IF ~n.user32Open /\ ub = "crashes"
            THEN [ nat |-> n1, error |-> "crash" ]
        ELSE IF n.hookHandle = "unset" /\ ffiRejects
            THEN [ nat |-> n2, error |-> "TypeError" ]
        ELSE IF ~n2.cbOpen
            THEN [ nat |-> n3, error |-> "BadResource" ]
        ELSE IF ~n3.user32Open
            THEN [ nat |-> n4, error |-> "BadResource" ]
        ELSE [ nat |-> n4, error |-> "none" ]

UbOutcomes == { "proceeds", "crashes" }

InstallError == "Failed to install mouse hook"

(***************************************************************************)
(* dispatchEvent on the public object: the events reach the consumer's      *)
(* listeners when there are any.                                            *)
(***************************************************************************)
dispatchEvent(events) ==
    /\ dispatched' = dispatched \o events
    /\ observed' = IF listening THEN observed \o events ELSE observed

\* the record of one callback invocation
Logged(nCode, wParam, lParam, next, r) ==
    << [ args |-> CallNextHookEx(nCode, wParam, lParam), next |-> next,
         events |-> r.events, cnh |-> r.cnh, ret |-> r.ret ] >>

\* the invocations that carry an event record
Delivered(nCode, wParam, lParam) ==
    IF nCode >= 0 /\ lParam # 0
    THEN << [ wParam |-> wParam, lParam |-> lParam ] >> ELSE << >>

(***************************************************************************)
(* Direct variants: everything runs on the consumer's thread.               *)
(***************************************************************************)
\* fine variant constructor, MouseHook.ts 152-196
FineConstruct ==
    /\ variant = "fine"
    /\ pc = "start"
    /\ \E installed \in BOOLEAN :
        IF installed
        THEN /\ nat' = GetMessageW([ Acquired(nat) EXCEPT !.hookHandle = "handle",
                                                         !.hooked = TRUE ])
             /\ installResult' = "ok"
             /\ pc' = "pumping"
             /\ UNCHANGED ctorError
        ELSE /\ nat' = user32Close(callbackClose(Acquired(nat)))
             /\ installResult' = "failed"
             /\ ctorError' = InstallError
             /\ pc' = "threw"
    /\ UNCHANGED << variant, wpc, closeError, closeCalls, terminated, listening,
                    channel, dispatched, observed, delivered, calls, callLog >>

\* coarse variant constructor, MouseHook.ts 345-391
CoarseConstruct ==
    /\ variant = "coarse"
    /\ pc = "start"
    /\ \E installed \in BOOLEAN, unhookOk \in BOOLEAN, ffiRejects \in BOOLEAN :
        IF installed
        THEN /\ nat' = GetMessageW([ Acquired(nat) EXCEPT !.hookHandle = "handle",
                                                         !.hooked = TRUE ])
             /\ installResult' = "ok"
             /\ pc' = "pumping"
             /\ UNCHANGED ctorError
        ELSE LET c == close(Acquired(nat), unhookOk, ffiRejects, "proceeds")
             IN  /\ nat' = c.nat
                 /\ installResult' = "failed"
                 /\ ctorError' = IF c.error # "none" THEN c.error ELSE InstallError
                 /\ pc' = "threw"
    /\ UNCHANGED << variant, wpc, closeError, closeCalls, terminated, listening,
                    channel, dispatched, observed, delivered, calls, callLog >>

\* The hook callback of a direct variant runs inside GetMessageW, on the
\* thread that is blocked in the constructor; r is what the callback did.
DirectCallback(nCode, wParam, lParam, next, r) ==
    /\ pc = "pumping"
    /\ nat.hooked
    /\ nat.cbOpen
    /\ calls < MaxCalls
    /\ dispatchEvent(r.events)
    /\ callLog' = Logged(nCode, wParam, lParam, next, r)
    /\ delivered' = delivered \o Delivered(nCode, wParam, lParam)
    /\ calls' = calls + 1
    /\ UNCHANGED << variant, pc, wpc, nat, installResult, ctorError, closeError,
                    closeCalls, terminated, listening, channel >>

FineHookCallback ==
    /\ variant = "fine"
    /\ \E nCode \in NCodes, wParam \in WParams, lParam \in LParams,
          next \in NextResults :
        DirectCallback(nCode, wParam, lParam, next,
                       fineCallback(nCode, wParam, lParam, next))

CoarseHookCallback ==
    /\ variant = "coarse"
    /\ \E nCode \in NCodes, wParam \in WParams, lParam \in LParams,
          next \in NextResults :
        DirectCallback(nCode, wParam, lParam, next,
                       coarseCallback(nCode, wParam, lParam, next))

\* GetMessageW retrieves a posted message and returns: the constructor
\* (MouseHook.ts 195-196, 390-391) returns the object to its caller.
DirectGetMessageReturns ==
    /\ variant \in { "fine", "coarse" }
    /\ pc = "pumping"
    /\ pc' = "constructed"
    /\ UNCHANGED << variant, wpc, nat, installResult, ctorError, closeError,
                    closeCalls, terminated, listening, channel, dispatched,
                    observed, delivered, calls, callLog >>

\* close() of a direct variant, called by the consumer on the object it holds
DirectClose ==
    /\ variant \in { "fine", "coarse" }
    /\ pc = "constructed"
    /\ closeCalls < MaxClose
    /\ \E unhookOk \in BOOLEAN, ub \in UbOutcomes :
        LET c == close(nat, unhookOk, FALSE, ub)
        IN  /\ nat' = c.nat
            /\ pc' = IF c.error = "crash" THEN "crashed" ELSE pc
            /\ closeError' = IF c.error \in { "none", "crash" }
                             THEN closeError ELSE c.error
    /\ closeCalls' = closeCalls + 1
    /\ UNCHANGED << variant, wpc, installResult, ctorError, terminated, listening,
                    channel, dispatched, observed, delivered, calls, callLog >>

\* hook.addEventListener(...) by the consumer, on the object the constructor
\* returned
AddListener ==
    /\ pc = "constructed"
    /\ ~listening
    /\ listening' = TRUE
    /\ UNCHANGED << variant, pc, wpc, nat, installResult, ctorError, closeError,
                    closeCalls, terminated, channel, dispatched, observed,
                    delivered, calls, callLog >>

(***************************************************************************)
(* Worker variant: the facade runs on the consumer's thread, the hook and   *)
(* the pump on the worker's thread.                                         *)
(***************************************************************************)
\* facade constructor, MouseHook_worker.ts 8-131: creates the worker, sets
\* onmessage and returns; the worker code has not run yet
WorkerConstruct ==
    /\ variant = "worker"
    /\ pc = "start"
    /\ pc' = "constructed"
    /\ wpc' = "loading"
    /\ UNCHANGED << variant, nat, installResult, ctorError, closeError,
                    closeCalls, terminated, listening, channel, dispatched,
                    observed, delivered, calls, callLog >>

\* the worker code, MouseHook_worker.ts 41-113: new MouseHook() loads user32,
\* the four listeners are added, hook.start() creates the callback, installs
\* the hook and calls GetMessageW.  When the installation fails, start()
\* closes the callback and the library, calls self.close() (which lets the
\* running code finish) and goes on to the GetMessageW call at line 94.
WorkerStart ==
    /\ variant = "worker"
    /\ wpc = "loading"
    /\ ~terminated
    /\ \E installed \in BOOLEAN, ub \in UbOutcomes :
        IF installed
        THEN /\ nat' = GetMessageW([ Acquired(nat) EXCEPT !.hookHandle = "handle",
                                                         !.hooked = TRUE ])
             /\ installResult' = "ok"
             /\ wpc' = "pumping"
             /\ UNCHANGED pc
        ELSE /\ nat' = GetMessageW(user32Close(callbackClose(Acquired(nat))))
             /\ installResult' = "failed"
             /\ wpc' = IF ub = "crashes" THEN "crashed" ELSE "pumping"
             /\ pc' = IF ub = "crashes" THEN "crashed" ELSE pc
    /\ UNCHANGED << variant, ctorError, closeError, closeCalls, terminated,
                    listening, channel, dispatched, observed, delivered, calls,
                    callLog >>

\* The hook callback runs inside GetMessageW on the worker's thread; the
\* events it dispatches reach the worker's four listeners, which post them.
WorkerHookCallback ==
    /\ variant = "worker"
    /\ wpc = "pumping"
    /\ nat.hooked
    /\ nat.cbOpen
    /\ calls < MaxCalls
    /\ \E nCode \in NCodes, wParam \in WParams, lParam \in LParams,
          next \in NextResults :
        LET r == workerCallback(nCode, wParam, lParam, next)
            posted == IF r.events = << >> THEN << >>
                      ELSE workerListeners(r.events[1])
        IN  /\ channel' = channel \o posted
            /\ callLog' = Logged(nCode, wParam, lParam, next, r)
            /\ delivered' = delivered \o Delivered(nCode, wParam, lParam)
    /\ calls' = calls + 1
    /\ UNCHANGED << variant, pc, wpc, nat, installResult, ctorError, closeError,
                    closeCalls, terminated, listening, dispatched, observed >>

\* GetMessageW retrieves a posted message and returns in the worker: start()
\* returns and the worker code is finished.  A worker that called
\* self.close() ends here; otherwise it stays alive, no longer pumping.
WorkerGetMessageReturns ==
    /\ variant = "worker"
    /\ wpc = "pumping"
    /\ wpc' = IF installResult = "failed" THEN "dead" ELSE "returned"
    /\ UNCHANGED << variant, pc, nat, installResult, ctorError, closeError,
                    closeCalls, terminated, listening, channel, dispatched,
                    observed, delivered, calls, callLog >>

\* worker.onmessage, MouseHook_worker.ts 124-127: the oldest message of the
\* channel is received and re-dispatched on the facade.  A terminated
\* worker's messages are no longer received.
FacadeOnMessage ==
    /\ variant = "worker"
    /\ pc = "constructed"
    /\ ~terminated
    /\ channel # << >>
    /\ dispatchEvent(<< onmessage(Head(channel)) >>)
    /\ channel' = Tail(channel)
    /\ UNCHANGED << variant, pc, wpc, nat, installResult, ctorError, closeError,
                    closeCalls, terminated, listening, delivered, calls, callLog >>

\* A close() of the facade that leaves the worker running.
WorkerClose_KeepsWorker ==
    /\ variant = "worker"
    /\ pc = "constructed"
    /\ closeCalls < MaxClose
    /\ closeCalls' = closeCalls + 1
    /\ UNCHANGED << variant, pc, wpc, nat, installResult, ctorError, closeError,
                    terminated, listening, channel, dispatched, observed,
                    delivered, calls, callLog >>

\* close() of the facade, MouseHook_worker.ts 134-136: worker.terminate().
\* No primitive of user32 is called and no resource is closed by the code.
WorkerClose ==
    /\ variant = "worker"
    /\ pc = "constructed"
    /\ closeCalls < MaxClose
    /\ terminated' = TRUE
    /\ closeCalls' = closeCalls + 1
    /\ UNCHANGED << variant, pc, wpc, nat, installResult, ctorError, closeError,
                    listening, channel, dispatched, observed, delivered, calls,
                    callLog >>

\* The runtime stops the terminated worker's thread, some time after
\* terminate() was called.
WorkerStops ==
    /\ variant = "worker"
    /\ terminated
    /\ wpc \in { "loading", "pumping", "returned" }
    /\ wpc' = "dead"
    /\ UNCHANGED << variant, pc, nat, installResult, ctorError, closeError,
                    closeCalls, terminated, listening, channel, dispatched,
                    observed, delivered, calls, callLog >>

Next ==
    \/ FineConstruct
    \/ CoarseConstruct
    \/ FineHookCallback
    \/ CoarseHookCallback
    \/ DirectGetMessageReturns
    \/ DirectClose
    \/ AddListener
    \/ WorkerConstruct
    \/ WorkerStart
    \/ WorkerHookCallback
    \/ WorkerGetMessageReturns
    \/ FacadeOnMessage
    \/ WorkerClose
    \/ WorkerStops

Spec == Init /\ [][Next]_vars

(***************************************************************************)
(* The callbacks on their own: each is applied to any code, any pointer and *)
(* any nCode, whatever the session does, and its result is logged.          *)
(***************************************************************************)
Decode(nCode, wParam, lParam, next, r) ==
    /\ callLog' = Logged(nCode, wParam, lParam, next, r)
    /\ UNCHANGED << variant, pc, wpc, nat, installResult, ctorError, closeError,
                    closeCalls, terminated, listening, channel, dispatched,
                    observed, delivered, calls >>

FineDecode ==
    /\ variant = "fine"
    /\ \E nCode \in NCodes, wParam \in DecodeWParams, lParam \in DecodeLParams,
          next \in NextResults :
        Decode(nCode, wParam, lParam, next,
               fineCallback(nCode, wParam, lParam, next))

CoarseDecode ==
    /\ variant = "coarse"
    /\ \E nCode \in NCodes, wParam \in DecodeWParams, lParam \in DecodeLParams,
          next \in NextResults :
        Decode(nCode, wParam, lParam, next,
               coarseCallback(nCode, wParam, lParam, next))

WorkerDecode ==
    /\ variant = "worker"
    /\ \E nCode \in NCodes, wParam \in DecodeWParams, lParam \in DecodeLParams,
          next \in NextResults :
        Decode(nCode, wParam, lParam, next,
               workerCallback(nCode, wParam, lParam, next))

NextDecode == FineDecode \/ CoarseDecode \/ WorkerDecode

SpecDecode == Init /\ [][NextDecode]_vars

TypeOK ==
    /\ variant \in Variants
    /\ pc \in { "start", "pumping", "constructed", "threw", "crashed" }
    /\ wpc \in { "none", "loading", "pumping", "returned", "dead", "crashed" }
    /\ installResult \in { "none", "ok", "failed" }
    /\ closeCalls \in 0 .. MaxClose
    /\ calls \in 0 .. MaxCalls
    /\ Len(callLog) <= 1

(***************************************************************************)
(* Properties.                                                              *)
(***************************************************************************)
\* the pump is blocked in its wait call
PumpWaiting == pc = "pumping" \/ wpc = "pumping"

\* C1: close() is idempotent: over any sequence of close() calls no call
\* throws, and the post-quit, unhook, callback-release and module-release
\* primitives are each called at most once, so that a later close() never
\* touches a resource that is already freed.
C1_CloseIdempotent ==
    /\ closeError = "none"
    /\ nat.postQuitCalls <= 1
    /\ nat.unhookCalls <= 1
    /\ nat.cbCloseCalls <= 1
    /\ nat.user32CloseCalls <= 1

\* C2: when SetWindowsHookExW fails, the public constructor throws the single
\* error "Failed to install mouse hook" and returns no object, in every
\* variant.
C2_InstallFailureReported ==
    installResult = "failed" => (pc = "threw" /\ ctorError = InstallError)

\* C3: when the installation fails, the callback and the user32 library are
\* each released exactly once, nothing stays held, and GetMessageW is never
\* entered.
C3_InstallFailureReleasesAll ==
    installResult = "failed" =>
        /\ nat.cbCloseCalls = 1 /\ ~nat.cbOpen
        /\ nat.user32CloseCalls = 1 /\ ~nat.user32Open
        /\ ~nat.hooked /\ nat.hookHandle = "unset"
        /\ nat.getMessageCalls = 0

\* C4: once close() has been called, no further event is dispatched on the
\* public object (and none reaches a listener), whatever the callback and
\* the channel still do.
C4_NoDispatchAfterClose ==
    [][closeCalls >= 1 => (dispatched' = dispatched /\ observed' = observed)]_vars

\* C4 witness: close() has been called while the pump is still waiting (so
\* the callback can still be invoked), an event is in transit on the channel
\* and an earlier one was dispatched.
C4_Witness ==
    /\ closeCalls >= 1
    /\ wpc = "pumping"
    /\ channel # << >>
    /\ dispatched # << >>

\* every invocation of the history carried one of the ten known codes
AllKnown(history) == \A i \in DOMAIN history : history[i].wParam \in KnownCodes

\* the event the variant's callback builds for a delivered record
ExpectedEvent(d) ==
    CASE variant = "fine"   -> fineCallback(0, d.wParam, d.lParam, 0).events[1]
      [] variant = "coarse" -> coarseCallback(0, d.wParam, d.lParam, 0).events[1]
      [] variant = "worker" -> workerCallback(0, d.wParam, d.lParam, 0).events[1]

\* the events the facade will dispatch for the messages still in transit
InTransit == [ i \in DOMAIN channel |-> onmessage(channel[i]) ]

PumpStopped == nat.getMessageCalls >= 1 /\ ~PumpWaiting

\* C6: when the constructor returns to its caller, the pump has not already
\* stopped waiting: the consumer gets the object, and can add its listeners,
\* while the pump is running or still about to run.
C6_ConstructedWithPumpRunning ==
    [][(pc # "constructed" /\ pc' = "constructed") => ~PumpStopped']_vars

\* C7: after close() on an installed session the hook has been unregistered
\* through UnhookWindowsHookEx, the callback is closed and the library is
\* closed, in every variant.
C7_CloseReleasesAll ==
    (closeCalls >= 1 /\ installResult = "ok") =>
        /\ nat.unhookCalls >= 1
        /\ nat.cbCloseCalls >= 1 /\ ~nat.cbOpen
        /\ nat.user32CloseCalls >= 1 /\ ~nat.user32Open

\* C8: close() on a session whose hook was never installed passes no unset
\* handle to UnhookWindowsHookEx and does not throw.
C8_CloseSafeWhenNeverInstalled ==
    /\ nat.unhookUnset = 0
    /\ installResult = "failed" => ctorError \in { "none", InstallError }

\* C9: every callback invocation calls CallNextHookEx exactly once, with the
\* nCode, wParam and lParam it was given, and returns what that call
\* returned, whether or not it dispatched an event.
C9_ChainContinued ==
    callLog # << >> =>
        /\ callLog[1].cnh = << callLog[1].args >>
        /\ callLog[1].ret = callLog[1].next

\* C9 witness: an invocation that dispatched an event and whose next hook
\* returned a non-zero value.
C9_Witness ==
    /\ callLog # << >>
    /\ callLog[1].events # << >>
    /\ callLog[1].next = 1

\* C10: an invocation whose message code is not one of the ten known codes
\* dispatches no event.
C10_UnknownCodeDropped ==
    (callLog # << >> /\ callLog[1].args.wParam \notin KnownCodes) =>
        callLog[1].events = << >>

(***************************************************************************)
(* Properties of the decoding (checked under SpecDecode).                   *)
(***************************************************************************)
\* the last invocation carried an event record
Forwardable ==
    /\ callLog # << >>
    /\ callLog[1].args.nCode >= 0
    /\ callLog[1].args.lParam # 0

\* the events the consumer's listeners are handed for the last invocation:
\* in the worker variant they pass through the worker's listeners and the
\* facade's onmessage
ConsumerSees(events) ==
    IF variant = "worker"
    THEN LET posted == IF events = << >> THEN << >>
                       ELSE workerListeners(events[1])
         IN  [ i \in DOMAIN posted |-> onmessage(posted[i]) ]
    ELSE events

Exposed == ConsumerSees(callLog[1].events)

\* the callback of the session's variant
Callback(nCode, wParam, lParam, next) ==
    CASE variant = "fine"   -> fineCallback(nCode, wParam, lParam, next)
      [] variant = "coarse" -> coarseCallback(nCode, wParam, lParam, next)
      [] OTHER              -> workerCallback(nCode, wParam, lParam, next)

\* the record the last invocation pointed at, as five <<high, low>> words
RawX == word(callLog[1].args.lParam, 0)
RawY == word(callLog[1].args.lParam, 4)
RawMouseData == word(callLog[1].args.lParam, 8)
RawFlags == word(callLog[1].args.lParam, 12)
RawTime == word(callLog[1].args.lParam, 16)

\* a word read as a signed, an unsigned 32-bit value; a half read as signed
Signed32(w) == IF w[1] >= 32768 THEN (w[1] - 65536) * 65536 + w[2]
               ELSE w[1] * 65536 + w[2]
Unsigned32(w) == w[1] * 65536 + w[2]
Signed16(h) == IF h >= 32768 THEN h - 65536 ELSE h

DownCodes == { WM_LBUTTONDOWN, WM_RBUTTONDOWN, WM_MBUTTONDOWN, WM_XBUTTONDOWN }
UpCodes == { WM_LBUTTONUP, WM_RBUTTONUP, WM_MBUTTONUP, WM_XBUTTONUP }

\* the kind the coarse surface gives a known code
CoarseKind(code) ==
    IF code \in DownCodes THEN "mousedown"
    ELSE IF code \in UpCodes THEN "mouseup"
    ELSE IF code = WM_MOUSEMOVE THEN "mousemove"
    ELSE "mousewheel"

\* the per-button name the fine surface gives a known code
FineKind(code) ==
    LET button == CASE code \in { WM_LBUTTONDOWN, WM_LBUTTONUP } -> "l"
                    [] code \in { WM_RBUTTONDOWN, WM_RBUTTONUP } -> "r"
                    [] code \in { WM_MBUTTONDOWN, WM_MBUTTONUP } -> "m"
                    [] OTHER                                     -> "x"
    IN  IF code = WM_MOUSEMOVE THEN "mousemove"
        ELSE IF code = WM_MOUSEWHEEL THEN "mousewheel"
        ELSE button \o "button" \o (IF code \in DownCodes THEN "down" ELSE "up")

\* C11: each of the ten known codes yields exactly one event, whose kind is
\* the per-button name in the fine surface and mousemove / mousedown /
\* mouseup / mousewheel in the coarse surface (every *DOWN code mousedown,
\* every *UP code mouseup); the worker's table is the coarse table.
C11_MappingTotal ==
    /\ (Forwardable /\ callLog[1].args.wParam \in KnownCodes) =>
           /\ Len(Exposed) = 1
           /\ Exposed[1].type = IF variant = "fine"
                                THEN FineKind(callLog[1].args.wParam)
                                ELSE CoarseKind(callLog[1].args.wParam)
    /\ \A code \in DecodeWParams : workerEventNameMap(code) = eventNameMap(code)

\* C11 witness: the worker variant was handed WM_RBUTTONUP and the consumer
\* got a mouseup event.
C11_Witness ==
    /\ Forwardable
    /\ variant = "worker"
    /\ callLog[1].args.wParam = WM_RBUTTONUP
    /\ Len(Exposed) = 1
    /\ Exposed[1].type = "mouseup"

\* C12: the mouseData of a wheel event handed to the consumer is the signed
\* 16-bit high word of the record's mouseData field, in every variant.
C12_WheelSigned ==
    (Forwardable /\ callLog[1].args.wParam = WM_MOUSEWHEEL /\ Len(Exposed) = 1) =>
        Exposed[1].detail.mouseData = Signed16(RawMouseData[1])

\* the x and y of the event handed to the consumer (detail.pt in the fine
\* surface, detail itself in the coarse one)
ExposedX == IF variant = "fine" THEN Exposed[1].detail.pt.x
            ELSE Exposed[1].detail.x
ExposedY == IF variant = "fine" THEN Exposed[1].detail.pt.y
            ELSE Exposed[1].detail.y

\* the event's flags is the number read at offset 12 (the fine surface's
\* flags is an object of two booleans, never a number)
FlagsIsRaw == variant # "fine" /\ Exposed[1].detail.flags = Unsigned32(RawFlags)

\* C13 as stated: for every known code and every variant the event's x, y,
\* mouseData, flags and time are exactly the record's five values.
C13_RoundTrip ==
    (Forwardable /\ callLog[1].args.wParam \in KnownCodes /\ Len(Exposed) = 1) =>
        /\ ExposedX = Signed32(RawX)
        /\ ExposedY = Signed32(RawY)
        /\ Exposed[1].detail.mouseData = Signed32(RawMouseData)
        /\ FlagsIsRaw
        /\ Exposed[1].detail.time = Unsigned32(RawTime)

\* C13 amended: for every known code, x, y and time are exactly the record's
\* values in every variant; mouseData and flags are the record's values in
\* the coarse and the worker variants, while the fine variant exposes the
\* high word of mouseData (signed for a wheel event) and bits 0 and 1 of
\* flags as two booleans.
C13_RoundTripPerSurface ==
    (Forwardable /\ callLog[1].args.wParam \in KnownCodes /\ Len(Exposed) = 1) =>
        /\ ExposedX = Signed32(RawX)
        /\ ExposedY = Signed32(RawY)
        /\ Exposed[1].detail.time = Unsigned32(RawTime)
        /\ variant # "fine" =>
               /\ Exposed[1].detail.mouseData = Signed32(RawMouseData)
               /\ FlagsIsRaw
        /\ variant = "fine" =>
               /\ Exposed[1].detail.mouseData =
                      IF callLog[1].args.wParam = WM_MOUSEWHEEL
                      THEN Signed16(RawMouseData[1]) ELSE RawMouseData[1]
               /\ Exposed[1].detail.flags.injected = (RawFlags[2] % 2 = 1)
               /\ Exposed[1].detail.flags.lowerIlInjected =
                      ((RawFlags[2] \div 2) % 2 = 1)

\* C13 witness: the worker variant decoded the record with negative x and y,
\* mouseData 0x80000000 and time 0x7FFFFFFF for an X-button release.
C13_Witness ==
    /\ Forwardable
    /\ variant = "worker"
    /\ callLog[1].args.wParam = WM_XBUTTONUP
    /\ callLog[1].args.lParam = 2
    /\ Len(Exposed) = 1
    /\ Exposed[1].detail.x = -1
    /\ Exposed[1].detail.mouseData < 0

\* what reading injected / lowerIlInjected off the event's flags gives the
\* consumer: a boolean in the fine surface, undefined in the coarse one,
\* whose flags is a number
ExposedInjected ==
    IF variant = "fine"
    THEN IF Exposed[1].detail.flags.injected THEN "true" ELSE "false"
    ELSE "undefined"
ExposedLowerIlInjected ==
    IF variant = "fine"
    THEN IF Exposed[1].detail.flags.lowerIlInjected THEN "true" ELSE "false"
    ELSE "undefined"

\* C14: the event's injected is true exactly when bit 0 of the record's flags
\* is set and its lowerIlInjected exactly when bit 1 is set, whatever the
\* other bits.
C14_FlagsDecoded ==
    (Forwardable /\ Len(Exposed) = 1) =>
        /\ ExposedInjected = IF RawFlags[2] % 2 = 1 THEN "true" ELSE "false"
        /\ ExposedLowerIlInjected =
               IF (RawFlags[2] \div 2) % 2 = 1 THEN "true" ELSE "false"

\* the codes that collapse into the same coarse kind as the given one
SameKindCodes(code) ==
    IF code \in DownCodes THEN DownCodes \ { code }
    ELSE IF code \in UpCodes THEN UpCodes \ { code }
    ELSE { }

\* C15: in the coarse surface the event of a button code differs from the
\* event any other button's code of the same kind gives for the same record.
C15_ButtonIdentified ==
    (Forwardable /\ variant # "fine" /\ Len(Exposed) = 1) =>
        \A other \in SameKindCodes(callLog[1].args.wParam) :
            ConsumerSees(Callback(callLog[1].args.nCode, other,
                                  callLog[1].args.lParam,
                                  callLog[1].next).events) # Exposed

(***************************************************************************)
(* Properties of the session's lifecycle (checked under Spec).              *)
(***************************************************************************)
\* C16: in every reachable state, while the hook is registered with the OS
\* the callback and the library are both still open.
C16_UninstallBeforeRelease ==
    nat.hooked => (nat.cbOpen /\ nat.user32Open)

\* the release primitives called by the step
StepsTaken == SubSeq(nat'.steps, Len(nat.steps) + 1, Len(nat'.steps))

\* C17: close() on an installed session calls PostQuitMessage,
\* UnhookWindowsHookEx, the callback's close and the library's close, in
\* this order and nothing else.
C17_CloseOrder ==
    [][(closeCalls' = closeCalls + 1 /\ closeCalls = 0 /\ installResult = "ok") =>
           StepsTaken = << "PostQuitMessage", "UnhookWindowsHookEx",
                           "callback.close", "user32.close" >>]_vars

\* C18: while the session is installed and close() has not been called, the
\* pump is blocked in its wait call.
C18_PumpLoops ==
    (installResult = "ok" /\ closeCalls = 0) => PumpWaiting

\* C19: whenever the session is installed and the pump is blocked in its
\* wait call, a close() of the consumer can execute.
C19_CloseCanRun ==
    (installResult = "ok" /\ PumpWaiting /\ closeCalls < MaxClose) =>
        ENABLED (DirectClose \/ WorkerClose)

\* C20: a callback invocation hands its event over without running the
\* public object's dispatch to the consumer's listeners: the step that runs
\* the callback dispatches nothing on the public object.
C20_CallbackOnlyEnqueues ==
    [][calls' = calls + 1 => dispatched' = dispatched]_vars

\* the pump's execution context has ended: the direct variants' constructor
\* has returned from its wait call, the worker's thread has stopped
PumpGone == IF variant = "worker" THEN wpc = "dead" ELSE pc = "constructed"

\* the hook has been unregistered and the callback and the library are closed
Released == nat.unhookCalls >= 1 /\ ~nat.cbOpen /\ ~nat.user32Open

\* C21: closing the session stops the forwarding of events first, then ends
\* the pump's context, then releases the hook and the native resources: no
\* event is forwarded once close() was called, close() releases nothing
\* while the pump is still waiting, and once the pump's context has ended
\* after a close() the hook, the callback and the library are released.
C21_CloseSequence ==
    [][/\ closeCalls >= 1 => dispatched' = dispatched
       /\ (closeCalls' = closeCalls + 1 /\ nat'.steps # nat.steps) => ~PumpWaiting
       /\ (closeCalls' >= 1 /\ installResult' = "ok" /\ PumpGone') => Released']_vars

XButtonCodes == { WM_XBUTTONDOWN, WM_XBUTTONUP }

\* C22: for every kind other than the wheel, the mouseData handed to the
\* consumer is the X-button identifier, the record's high word read unsigned,
\* for an X-button code, and 0 for the other codes (whose records carry 0 in
\* that field).
C22_NonWheelMouseData ==
    (/\ Forwardable
     /\ callLog[1].args.wParam \in KnownCodes \ { WM_MOUSEWHEEL }
     /\ Len(Exposed) = 1) =>
        IF callLog[1].args.wParam \in XButtonCodes
        THEN Exposed[1].detail.mouseData = RawMouseData[1]
        ELSE RawMouseData = << 0, 0 >> => Exposed[1].detail.mouseData = 0

\* C23: an invocation with nCode < 0 or with a null pointer dispatches no
\* event, hands none to the consumer, and only passes the call on to the
\* next hook, returning its result.
C23_SkippedInvocation ==
    (callLog # << >> /\ (callLog[1].args.nCode < 0 \/ callLog[1].args.lParam = 0)) =>
        /\ callLog[1].events = << >>
        /\ Exposed = << >>
        /\ callLog[1].cnh = << callLog[1].args >>
        /\ callLog[1].ret = callLog[1].next

\* C23 witness: the coarse callback was invoked with nCode < 0, a known code
\* and a record, dispatched nothing and called the next hook.
C23_Witness ==
    /\ callLog # << >>
    /\ variant = "coarse"
    /\ callLog[1].args.nCode < 0
    /\ callLog[1].args.lParam # 0
    /\ callLog[1].args.wParam = WM_LBUTTONDOWN
    /\ callLog[1].events = << >>
    /\ Len(callLog[1].cnh) = 1

\* C24: no symbol of user32 (CallNextHookEx, GetMessageW, PostQuitMessage,
\* UnhookWindowsHookEx) is ever called after the library has been closed.
C24_NoCallAfterLibraryClosed == nat.staleCalls = 0

\* the events the direct coarse callback dispatches for a history of
\* invocations that carried a record
RECURSIVE CoarseDispatch(_)
CoarseDispatch(history) ==
    IF history = << >> THEN << >>
    ELSE coarseCallback(0, Head(history).wParam, Head(history).lParam, 0).events
             \o CoarseDispatch(Tail(history))

\* C25: while the session is open, the events the worker-backed object has
\* dispatched, followed by those still in transit, are exactly the events
\* the direct coarse object dispatches for the same invocations: same order,
\* same type and detail, none added and none removed.
C25_WorkerEqualsCoarse ==
    (variant \in { "coarse", "worker" } /\ closeCalls = 0) =>
        dispatched \o InTransit = CoarseDispatch(delivered)

\* C25 witness: the worker-backed object was handed an unknown code and a
\* wheel event, and has dispatched the wheel event and nothing else.
C25_Witness ==
    /\ variant = "worker"
    /\ closeCalls = 0
    /\ Len(delivered) = 2
    /\ delivered[1].wParam = 526
    /\ delivered[2].wParam = WM_MOUSEWHEEL
    /\ channel = << >>
    /\ Len(dispatched) = 1
    /\ dispatched[1].type = "mousewheel"

====
